---------------------------- MODULE Spec2Model ----------------------------
(***************************************************************************)
(* A model of backend/main.py: the account store, the session tokens, the  *)
(* entry pipeline (classify, encrypt, persist, history window, insight),   *)
(* the per-user history and the temporary audio file of analyze_audio.     *)
(*                                                                         *)
(* Texts and date strings are sequences of one-character strings, so that  *)
(* str.strip and datetime.strptime are computed, not assumed.  Dates are   *)
(* proleptic Gregorian ordinals (datetime.date.toordinal).  Times are      *)
(* seconds since the epoch, the granularity of a JWT "exp" claim.          *)
(* Probabilities are integers in 0..100 (hundredths).                      *)
(***************************************************************************)
EXTENDS Integers, Sequences, FiniteSets, TLC

VARIABLES
    users,      \* the user table: a sequence of User rows in rowid order
    entries,    \* the journalentry table: a sequence of JournalEntry rows
    clock,      \* datetime.utcnow(), in whole seconds
    files,      \* the temporary files that exist on disk
    workers,    \* the signup requests in flight, one per worker thread
    last,       \* the request that completed last, and its response
    probe       \* the input and output of one application of a pure function

vars == <<users, entries, clock, files, workers, last, probe>>

----------------------------------------------------------------------------
(* Bounds of the model *)

MaxEntries == 2     \* rows of the journalentry table
MaxLeaked == 1      \* temporary files left on disk
MaxEarly == 1       \* clock points right after the epoch
MaxLate == 1        \* clock points after a token's lifetime has elapsed
NumWorkers == 2     \* worker threads that serve signup concurrently
ExtraLabels == 1    \* classifier outputs beyond the 28 labels

----------------------------------------------------------------------------
(* 1. Configuration and security *)

SECRET_KEY == "YOUR_SUPER_SECRET_KEY_CHANGE_THIS"
ACCESS_TOKEN_EXPIRE_MINUTES == 60 * 24

None == "<None>"

\* pwd_context.hash: a one-way hash; the salt is left out, verify ignores it
get_password_hash(password) == <<"bcrypt", password>>

verify_password(plain_password, hashed_password) ==
    hashed_password = <<"bcrypt", plain_password>>

\* cipher_suite.encrypt: an opaque Fernet token of the plaintext
encrypt(plaintext) == [fernet |-> plaintext]

\* create_access_token: jose writes "exp" in whole seconds
create_access_token(sub, now) ==
    [sub |-> sub, exp |-> now + ACCESS_TOKEN_EXPIRE_MINUTES * 60, key |-> SECRET_KEY]

\* jwt.decode of python-jose: JWTError for a signature made with another key,
\* ExpiredSignatureError (a JWTError) when exp < now
jwt_decode(token, key, now) ==
    IF token.key # key THEN [ok |-> FALSE, sub |-> None]
    ELSE IF token.exp < now THEN [ok |-> FALSE, sub |-> None]
    ELSE [ok |-> TRUE, sub |-> token.sub]

NoUser == [id |-> 0, username |-> None, email |-> None, hashed_password |-> <<>>]

\* select(User).where(User.username == username).first(); username is unique
UserByName(us, username) ==
    IF \E i \in 1..Len(us) : us[i].username = username
    THEN us[CHOOSE i \in 1..Len(us) : us[i].username = username]
    ELSE NoUser

\* get_current_user: the User the token stands for, or NoUser for the 401
get_current_user(token, us, now) ==
    LET payload == jwt_decode(token, SECRET_KEY, now)
    IN  IF ~payload.ok \/ payload.sub = None THEN NoUser
        ELSE UserByName(us, payload.sub)

----------------------------------------------------------------------------
(* 2. Strings and dates *)

IsSpace(c) == c \in {" ", "\t", "\n"}

RECURSIVE lstrip(_)
lstrip(s) == IF s # <<>> /\ IsSpace(Head(s)) THEN lstrip(Tail(s)) ELSE s

RECURSIVE rstrip(_)
rstrip(s) ==
    IF s # <<>> /\ IsSpace(s[Len(s)]) THEN rstrip(SubSeq(s, 1, Len(s) - 1)) ELSE s

\* str.strip
strip(s) == rstrip(lstrip(s))

DigitVal(c) ==
    CASE c = "0" -> 0 [] c = "1" -> 1 [] c = "2" -> 2 [] c = "3" -> 3
      [] c = "4" -> 4 [] c = "5" -> 5 [] c = "6" -> 6 [] c = "7" -> 7
      [] c = "8" -> 8 [] c = "9" -> 9 [] OTHER -> -1

IsDigit(c) == DigitVal(c) >= 0

\* %m of strptime: 1[0-2]|0[1-9]|[1-9]; -1 when the field does not match
MonthField(f) ==
    IF Len(f) = 1 /\ DigitVal(f[1]) >= 1 THEN DigitVal(f[1])
    ELSE IF Len(f) = 2 /\ f[1] = "1" /\ DigitVal(f[2]) \in 0..2 THEN 10 + DigitVal(f[2])
    ELSE IF Len(f) = 2 /\ f[1] = "0" /\ DigitVal(f[2]) >= 1 THEN DigitVal(f[2])
    ELSE -1

\* %d of strptime: 3[0-1]|[1-2]\d|0[1-9]|[1-9]| [1-9]; -1 when it does not match
DayField(f) ==
    IF Len(f) = 1 /\ DigitVal(f[1]) >= 1 THEN DigitVal(f[1])
    ELSE IF Len(f) = 2 /\ f[1] = "3" /\ DigitVal(f[2]) \in 0..1 THEN 30 + DigitVal(f[2])
    ELSE IF Len(f) = 2 /\ f[1] \in {"1", "2"} /\ IsDigit(f[2])
         THEN 10 * DigitVal(f[1]) + DigitVal(f[2])
    ELSE IF Len(f) = 2 /\ f[1] \in {"0", " "} /\ DigitVal(f[2]) >= 1 THEN DigitVal(f[2])
    ELSE -1

IsLeap(y) == y % 4 = 0 /\ (y % 100 # 0 \/ y % 400 = 0)

DaysInMonth(y, m) ==
    IF m = 2 THEN (IF IsLeap(y) THEN 29 ELSE 28)
    ELSE IF m \in {4, 6, 9, 11} THEN 30 ELSE 31

RECURSIVE DaysBeforeMonth(_, _)
DaysBeforeMonth(y, m) ==
    IF m = 1 THEN 0 ELSE DaysBeforeMonth(y, m - 1) + DaysInMonth(y, m - 1)

\* datetime.date(y, m, d).toordinal()
ToOrdinal(y, m, d) ==
    LET p == y - 1
    IN  p * 365 + (p \div 4) - (p \div 100) + (p \div 400) + DaysBeforeMonth(y, m) + d

BadDate == [ok |-> FALSE, ordinal |-> 0]

\* datetime.datetime.strptime(date_str, "%Y-%m-%d").date(): the whole string
\* must match \d\d\d\d-%m-%d and name a day of the calendar, or ValueError
strptime(s) ==
    IF Len(s) < 8 \/ s[5] # "-" \/ \E i \in 1..4 : ~IsDigit(s[i]) THEN BadDate
    ELSE
      LET rest == SubSeq(s, 6, Len(s))
          dashes == {i \in 1..Len(rest) : rest[i] = "-"}
      IN  IF Cardinality(dashes) # 1 THEN BadDate
          ELSE
            LET k == CHOOSE i \in dashes : TRUE
                y == 1000 * DigitVal(s[1]) + 100 * DigitVal(s[2])
                       + 10 * DigitVal(s[3]) + DigitVal(s[4])
                m == MonthField(SubSeq(rest, 1, k - 1))
                d == DayField(SubSeq(rest, k + 1, Len(rest)))
            IN  IF y < 1 \/ m < 1 \/ d < 1 THEN BadDate
                ELSE IF d > DaysInMonth(y, m) THEN BadDate
                ELSE [ok |-> TRUE, ordinal |-> ToOrdinal(y, m, d)]

----------------------------------------------------------------------------
(* 4. AI models: the label table, the argmax and the insight *)

EMOTION_LABELS ==
    <<"admiration", "amusement", "anger", "annoyance", "approval",
      "caring", "confusion", "curiosity", "desire", "disappointment",
      "disapproval", "disgust", "embarrassment", "excitement", "fear",
      "gratitude", "grief", "joy", "love", "nervousness",
      "optimism", "pride", "realization", "relief", "remorse",
      "sadness", "surprise", "neutral">>

\* EMOTION_LABELS.get(idx, "neutral"); idx counts from 0 as in the source
LabelOf(idx) ==
    IF idx \in 0..(Len(EMOTION_LABELS) - 1) THEN EMOTION_LABELS[idx + 1] ELSE "neutral"

\* max(probs)
MaxOf(probs) == CHOOSE v \in {probs[i] : i \in 1..Len(probs)} :
                    \A i \in 1..Len(probs) : probs[i] <= v

\* a wrong index: the last position that holds x
IndexOfLast(probs, x) ==
    (CHOOSE i \in 1..Len(probs) :
        probs[i] = x /\ \A j \in (i + 1)..Len(probs) : probs[j] # x) - 1

\* probs.index(x): the first position that holds x, counted from 0
IndexOf(probs, x) ==
    (CHOOSE i \in 1..Len(probs) :
        probs[i] = x /\ \A j \in 1..(i - 1) : probs[j] # x) - 1

\* max_idx, emotion and score of process_entry_logic
classify(probs) ==
    LET max_idx == IndexOf(probs, MaxOf(probs))
    IN  [max_idx |-> max_idx, emotion |-> LabelOf(max_idx), score |-> MaxOf(probs)]

DefaultInsight == "Take a moment to breathe."

\* wrong lists: "disappointment" is also in the first one
InsightRulesOverlap ==
    << [labels |-> {"anger", "annoyance", "disappointment"},
        text |-> "Try the physiological sigh: 2 short inhales, 1 long exhale to reset autonomic nervous system."],
       [labels |-> {"joy", "excitement", "optimism"},
        text |-> "Savoring: Write down 3 specific sensory details about this feeling to strengthen neural pathways."],
       [labels |-> {"sadness", "grief", "disappointment"},
        text |-> "Behavioral Activation: Do one very small, functional task (like washing a cup) to break the inertia."],
       [labels |-> {"fear", "nervousness"},
        text |-> "Box Breathing: Inhale 4s, Hold 4s, Exhale 4s, Hold 4s to activate the parasympathetic system."] >>

\* the four `if emotion in [...]` lines, in the order of the source
InsightRules ==
    << [labels |-> {"anger", "annoyance"},
        text |-> "Try the physiological sigh: 2 short inhales, 1 long exhale to reset autonomic nervous system."],
       [labels |-> {"joy", "excitement", "optimism"},
        text |-> "Savoring: Write down 3 specific sensory details about this feeling to strengthen neural pathways."],
       [labels |-> {"sadness", "grief", "disappointment"},
        text |-> "Behavioral Activation: Do one very small, functional task (like washing a cup) to break the inertia."],
       [labels |-> {"fear", "nervousness"},
        text |-> "Box Breathing: Inhale 4s, Hold 4s, Exhale 4s, Hold 4s to activate the parasympathetic system."] >>

\* the assignments of the `if` lines run in the order `order`: a later line
\* that matches overwrites what an earlier one assigned
RECURSIVE RunRules(_, _, _)
RunRules(emotion, order, insight) ==
    IF order = <<>> THEN insight
    ELSE RunRules(emotion, Tail(order),
                  IF emotion \in InsightRules[Head(order)].labels
                  THEN InsightRules[Head(order)].text ELSE insight)

SourceOrder == <<1, 2, 3, 4>>

insight_of(emotion) == RunRules(emotion, SourceOrder, DefaultInsight)

----------------------------------------------------------------------------
(* 7. The entry pipeline *)

HISTORY_DAYS == 90

\* a wrong window: the day 90 days before entry_date is left out
history_results_exclusive(es, user_id, entry_date) ==
    {i \in 1..Len(es) :
        es[i].user_id = user_id /\ es[i].date > entry_date - HISTORY_DAYS}

\* the rows of the history query: this user's, dated entry_date - 90 days or later
history_results(es, user_id, entry_date) ==
    {i \in 1..Len(es) :
        es[i].user_id = user_id /\ es[i].date >= entry_date - HISTORY_DAYS}

Raised(es, detail) ==
    [raised |-> TRUE, detail |-> detail, entries |-> es, response |-> <<>>]

\* process_entry_logic(text, date_str, user) on the table es.  probs is what the
\* classifier returns for text; fault names the call that raises, if one does:
\* "classify" (tokenizer / emotion_model), "commit" (session.commit) or
\* "query" (session.exec of the history query).
process_entry_logic(text, date_str, user, probs, fault, es) ==
    IF fault = "classify" THEN Raised(es, "inference failed")
    ELSE
      LET c == classify(probs)
          encrypted_text == encrypt(text)
          parsed == strptime(date_str)
      IN  IF ~parsed.ok THEN Raised(es, "time data does not match format")
          ELSE IF fault = "commit" THEN Raised(es, "commit failed")
          ELSE
            LET new_entry == [id |-> Len(es) + 1,
                              user_id |-> user.id,
                              date |-> parsed.ordinal,
                              encrypted_content |-> encrypted_text,
                              emotion_primary |-> c.emotion,
                              emotion_score |-> c.score]
                saved == Append(es, new_entry)
            IN  IF fault = "query" THEN Raised(saved, "query failed")
                ELSE [raised |-> FALSE, detail |-> "",
                      entries |-> saved,
                      response |->
                        [emotion |-> c.emotion,
                         score |-> c.score,
                         insight |-> insight_of(c.emotion),
                         history_count |->
                            Cardinality(history_results(saved, user.id, parsed.ordinal))]]

----------------------------------------------------------------------------
(* 6. The auth endpoints *)

\* the rows that match or_(User.username == username, User.email == email);
\* .first() returns one of them, and the query has no ORDER BY
signup_matches(us, username, email) ==
    {i \in 1..Len(us) : us[i].username = username \/ us[i].email = email}

\* the `if existing_user:` block: the detail of the 400 it raises, "" when none
signup_detail(existing_user, username, email) ==
    IF existing_user = NoUser THEN ""
    ELSE IF existing_user.username = username THEN "Username already taken"
    ELSE IF existing_user.email = email THEN "Email already registered"
    ELSE ""

\* a user table without the unique indexes
no_unique_constraint(us, username, email) == FALSE

\* unique=True on User.username and User.email: the INSERT a commit rejects
unique_violation(us, username, email) ==
    \E i \in 1..Len(us) : us[i].username = username \/ us[i].email = email

new_user(us, username, email, password) ==
    [id |-> Len(us) + 1, username |-> username, email |-> email,
     hashed_password |-> get_password_hash(password)]

NoToken == [sub |-> None, exp |-> 0, key |-> ""]

Snapshot == [users |-> users, entries |-> entries, files |-> files]

Request(op, token, text, fault) ==
    [op |-> op, token |-> token, text |-> text, fault |-> fault, at |-> clock,
     before |-> Snapshot,
     status |-> 0, detail |-> "", user |-> 0, body |-> <<>>, tmp |-> 0,
     remove_failed |-> FALSE]

Respond(req, status, detail, user, body) ==
    [req EXCEPT !.status = status, !.detail = detail, !.user = user, !.body = body]

\* signup, served from start to end by one worker with no other request running
Signup(username, email, password) ==
    LET req == Request("signup", NoToken, <<username, email>>, "none")
        m == signup_matches(users, username, email)
    IN  /\ \E existing_user \in (IF m = {} THEN {NoUser} ELSE {users[i] : i \in m}) :
              LET detail == signup_detail(existing_user, username, email)
              IN  IF detail # ""
                  THEN /\ users' = users
                       /\ last' = Respond(req, 400, detail, 0, <<>>)
                  ELSE IF unique_violation(users, username, email)
                  THEN /\ users' = users
                       /\ last' = Respond(req, 500, "IntegrityError", 0, <<>>)
                  ELSE /\ users' = Append(users, new_user(users, username, email, password))
                       /\ last' = Respond(req, 200, "", 0, "User created successfully")
        /\ UNCHANGED <<entries, clock, files, workers, probe>>

\* login
Login(username, password) ==
    LET req == Request("login", NoToken, <<username>>, "none")
        user == UserByName(users, username)
    IN  /\ last' =
              IF user = NoUser
              THEN Respond(req, 400, "User not found, please create a new account", 0, <<>>)
              ELSE IF ~verify_password(password, user.hashed_password)
              THEN Respond(req, 400, "Incorrect password", 0, <<>>)
              ELSE Respond(req, 200, "", user.id,
                           create_access_token(user.username, clock))
        /\ UNCHANGED <<users, entries, clock, files, workers, probe>>

\* signup on worker w up to the commit: the SELECT and the `if existing_user:`
\* block.  Another worker may run between this and the commit.
Idle == [pc |-> "idle", username |-> None, email |-> None, password |-> "",
         status |-> 0, detail |-> ""]

SignupBegin(w, username, email, password) ==
    LET m == signup_matches(users, username, email)
    IN  /\ workers[w].pc \in {"idle", "done"}
        /\ \E existing_user \in (IF m = {} THEN {NoUser} ELSE {users[i] : i \in m}) :
              LET detail == signup_detail(existing_user, username, email)
                  me == [pc |-> "commit", username |-> username, email |-> email,
                         password |-> password, status |-> 0, detail |-> ""]
              IN  workers' = [workers EXCEPT ![w] =
                      IF detail # ""
                      THEN [me EXCEPT !.pc = "done", !.status = 400, !.detail = detail]
                      ELSE me]
        /\ UNCHANGED <<users, entries, clock, files, last, probe>>

\* session.add(new_user); session.commit() on worker w
SignupCommit(w) ==
    LET me == workers[w]
    IN  /\ me.pc = "commit"
        /\ IF unique_violation(users, me.username, me.email)
           THEN /\ users' = users
                /\ workers' = [workers EXCEPT ![w] =
                       [me EXCEPT !.pc = "done", !.status = 500, !.detail = "IntegrityError"]]
           ELSE /\ users' = Append(users, new_user(users, me.username, me.email, me.password))
                /\ workers' = [workers EXCEPT ![w] =
                       [me EXCEPT !.pc = "done", !.status = 200]]
        /\ UNCHANGED <<entries, clock, files, last, probe>>

----------------------------------------------------------------------------
(* 7. The secure endpoints *)

Unauthorized(req) == Respond(req, 401, "Could not validate credentials", 0, <<>>)

\* analyze_text: an exception of process_entry_logic is not caught, the
\* framework answers 500
AnalyzeText(token, text, date_str, probs, fault) ==
    LET req == Request("analyze_text", token, text, fault)
        current_user == get_current_user(token, users, clock)
        r == process_entry_logic(text, date_str, current_user, probs, fault, entries)
    IN  /\ Len(entries) < MaxEntries
        /\ IF current_user = NoUser
           THEN /\ entries' = entries
                /\ last' = Unauthorized(req)
           ELSE /\ entries' = r.entries
                /\ last' = IF r.raised
                           THEN Respond(req, 500, "Internal Server Error", current_user.id, <<>>)
                           ELSE Respond(req, 200, "", current_user.id, r.response)
        /\ UNCHANGED <<users, clock, files, workers, probe>>

\* tempfile.NamedTemporaryFile: a name no existing file has
fresh_name(fs) == CHOOSE n \in 1..(Cardinality(fs) + 1) : n \notin fs

\* the body of the try block of analyze_audio: what it returns or raises
audio_try(transcript, date_str, user, probs, fault, es) ==
    IF fault = "transcribe"
    THEN [exc |-> "Exception", status |-> 0, detail |-> "transcribe failed",
          entries |-> es, body |-> <<>>]
    ELSE
      LET transcribed_text == strip(transcript)
      IN  IF transcribed_text = <<>>
          THEN [exc |-> "HTTPException", status |-> 400,
                detail |-> "Could not transcribe audio.", entries |-> es, body |-> <<>>]
          ELSE
            LET r == process_entry_logic(transcribed_text, date_str, user, probs, fault, es)
            IN  IF r.raised
                THEN [exc |-> "Exception", status |-> 0, detail |-> r.detail,
                      entries |-> r.entries, body |-> <<>>]
                ELSE [exc |-> "", status |-> 200, detail |-> "", entries |-> r.entries,
                      body |-> [emotion |-> r.response.emotion,
                                score |-> r.response.score,
                                insight |-> r.response.insight,
                                history_count |-> r.response.history_count,
                                is_audio |-> TRUE,
                                transcription |-> transcribed_text]]

\* `except Exception as e: raise HTTPException(status_code=500, detail=str(e))`:
\* HTTPException is an Exception, so the 400 raised in the try block is caught too
audio_except(t) ==
    IF t.exc = "" THEN t
    ELSE [t EXCEPT !.status = 500,
                   !.detail = IF t.exc = "HTTPException"
                              THEN "400: Could not transcribe audio." ELSE t.detail]

\* analyze_audio.  fault names the call that raises, if one does: "copy"
\* (shutil.copyfileobj), "transcribe", or a fault of process_entry_logic;
\* remove_fails says whether os.remove raises.
AnalyzeAudio(token, transcript, date_str, probs, fault, remove_fails) ==
    LET req == Request("analyze_audio", token, transcript, fault)
        current_user == get_current_user(token, users, clock)
        tmp_path == fresh_name(files)
        t == audio_except(audio_try(transcript, date_str, current_user, probs, fault, entries))
    IN  /\ Len(entries) < MaxEntries
        /\ IF current_user = NoUser
           THEN /\ entries' = entries
                /\ files' = files
                /\ last' = Unauthorized(req)
           ELSE IF fault = "copy"
           THEN \* raised inside the `with` block: the file is closed, not deleted
                /\ entries' = entries
                /\ files' = files \cup {tmp_path}
                /\ last' = [Respond(req, 500, "Internal Server Error", current_user.id, <<>>)
                               EXCEPT !.tmp = tmp_path]
           ELSE \* try / except / finally
                /\ entries' = t.entries
                /\ files' = IF remove_fails THEN files \cup {tmp_path} ELSE files
                /\ last' = [Respond(req, t.status, t.detail, current_user.id, t.body)
                               EXCEPT !.tmp = tmp_path, !.remove_failed = remove_fails]
        /\ Cardinality(files') <= MaxLeaked
        /\ UNCHANGED <<users, clock, workers, probe>>

\* a query without the where clause
all_rows(es, user_id) == 1..Len(es)

\* the rows of select(JournalEntry).where(JournalEntry.user_id == current_user.id)
history_rows(es, user_id) == {i \in 1..Len(es) : es[i].user_id = user_id}

\* the orders .order_by(JournalEntry.date) may return the rows in
date_orders(es, rows) ==
    {o \in [1..Cardinality(rows) -> rows] :
        /\ \A i, j \in DOMAIN o : i # j => o[i] # o[j]
        /\ \A i, j \in DOMAIN o : i < j => es[o[i]].date <= es[o[j]].date}

\* get_history
GetHistory(token) ==
    LET req == Request("history", token, <<>>, "none")
        current_user == get_current_user(token, users, clock)
    IN  /\ IF current_user = NoUser
           THEN last' = Unauthorized(req)
           ELSE \E o \in date_orders(entries, history_rows(entries, current_user.id)) :
                    last' = Respond(req, 200, "", current_user.id,
                                [i \in DOMAIN o |->
                                    [date |-> entries[o[i]].date,
                                     emotion |-> entries[o[i]].emotion_primary]])
        /\ UNCHANGED <<users, entries, clock, files, workers, probe>>

----------------------------------------------------------------------------
(* Time *)

Lifetime == ACCESS_TOKEN_EXPIRE_MINUTES * 60

\* the instants the clock is sampled at: right after the epoch, and around the
\* end of the lifetime of a token issued then
ClockPoints == (0..MaxEarly) \cup ((Lifetime - 1)..(Lifetime + MaxLate))

Tick ==
    /\ \E t \in ClockPoints : t > clock /\ clock' = t
    /\ UNCHANGED <<users, entries, files, workers, last, probe>>

----------------------------------------------------------------------------
(* Pure functions, applied once to a chosen input *)

\* the classification and the row process_entry_logic stores for probs
Classify(probs) ==
    LET user == [id |-> 1, username |-> "alice", email |-> "alice@example.com",
                 hashed_password |-> get_password_hash("pw1")]
        r == process_entry_logic(<<"o", "k">>,
                 <<"2","0","2","4","-","0","1","-","0","1">>, user, probs, "none", <<>>)
    IN  /\ probe.fn = "none"
        /\ probe' = [fn |-> "classify", in |-> probs,
                     out |-> [c |-> classify(probs), row |-> r.entries[1],
                              response |-> r.response]]
        /\ UNCHANGED <<users, entries, clock, files, workers, last>>

\* the insight of the source, and the insight with the `if` lines in `order`
Insight(emotion, order) ==
    /\ probe.fn = "none"
    /\ probe' = [fn |-> "insight", in |-> [emotion |-> emotion, order |-> order],
                 out |-> [code |-> insight_of(emotion),
                          ordered |-> RunRules(emotion, order, DefaultInsight)]]
    /\ UNCHANGED <<users, entries, clock, files, workers, last>>

----------------------------------------------------------------------------
(* Inputs *)

Workers == 1..NumWorkers

Usernames == {"alice", "bob"}
Emails == {"alice@example.com", "bob@example.com"}
Passwords == {"pw1", "pw2"}

EmailOf(username) == IF username = "alice" THEN "alice@example.com" ELSE "bob@example.com"

\* "2024-01-01", and the days 90 and 91 days after it
Jan01 == <<"2","0","2","4","-","0","1","-","0","1">>
Mar31 == <<"2","0","2","4","-","0","3","-","3","1">>
Apr01 == <<"2","0","2","4","-","4","-","1">>
\* no day of the calendar, and not the format
Feb30 == <<"2","0","2","4","-","0","2","-","3","0">>
Slashes == <<"0","1","/","1","5","/","2","0","2","4">>

WindowDates == {Jan01, Mar31, Apr01}
DateStrings == {Jan01, Feb30, Slashes}

Text == <<"o", "k">>
Speech == <<" ", "o", "k", "\n">>
Transcripts == {<<>>, <<" ", "\n">>, Speech}

\* a classifier output of n values: 10 everywhere but vi at i and vj at j
Vec(n, i, vi, j, vj) ==
    [k \in 1..n |-> IF k = j THEN vj ELSE IF k = i THEN vi ELSE 10]

NumLabels == Len(EMOTION_LABELS)

AngerProbs == Vec(NumLabels, 3, 87, 4, 87)
JoyProbs == Vec(NumLabels, 18, 91, 28, 40)

ProbVectors ==
    {Vec(n, i, vi, j, vj) :
        n \in NumLabels..(NumLabels + ExtraLabels),
        i \in 1..(NumLabels + ExtraLabels), j \in 1..(NumLabels + ExtraLabels),
        vi \in {10, 50, 90}, vj \in {10, 90}}

Orders == {o \in [1..4 -> 1..4] : \A i, j \in 1..4 : i # j => o[i] # o[j]}

\* the tokens login issues at the epoch, and one signed with another key
SessionTokens ==
    {create_access_token(u, 0) : u \in Usernames}
        \cup {[sub |-> "alice", exp |-> Lifetime, key |-> "another key"]}

\* tokens with any subject, signed with either key, expiring a lifetime after
\* one of the early clock points
TokenInputs ==
    {[sub |-> s, exp |-> t + Lifetime, key |-> k] :
        s \in {"alice", None}, t \in 0..MaxEarly, k \in {SECRET_KEY, "another key"}}

TextFaults == {"none", "classify", "commit", "query"}
AudioFaults == TextFaults \cup {"copy", "transcribe"}

----------------------------------------------------------------------------
(* Specifications *)

NoRequest ==
    [op |-> "none", token |-> NoToken, text |-> <<>>, fault |-> "none", at |-> 0,
     before |-> [users |-> <<>>, entries |-> <<>>, files |-> {}],
     status |-> 0, detail |-> "", user |-> 0, body |-> <<>>, tmp |-> 0,
     remove_failed |-> FALSE]

Init ==
    /\ users = <<>>
    /\ entries = <<>>
    /\ clock = 0
    /\ files = {}
    /\ workers = [w \in Workers |-> Idle]
    /\ last = NoRequest
    /\ probe = [fn |-> "none", in |-> <<>>, out |-> <<>>]

\* the service, one request at a time
Next ==
    \/ \E u \in Usernames, e \in Emails, p \in Passwords : Signup(u, e, p)
    \/ \E u \in Usernames, p \in Passwords : Login(u, p)
    \/ Tick
    \/ \E tok \in SessionTokens \cup TokenInputs, d \in WindowDates \cup DateStrings,
          probs \in {AngerProbs, JoyProbs}, f \in TextFaults :
            AnalyzeText(tok, Text, d, probs, f)
    \/ \E tok \in SessionTokens \cup TokenInputs, tr \in Transcripts,
          d \in WindowDates \cup DateStrings, probs \in {AngerProbs, JoyProbs},
          f \in AudioFaults, rf \in BOOLEAN :
            AnalyzeAudio(tok, tr, d, probs, f, rf)
    \/ \E tok \in SessionTokens \cup TokenInputs : GetHistory(tok)

Spec == Init /\ [][Next]_vars

\* the account store: signup and login with every username, email and password
NextAccounts ==
    \/ \E u \in Usernames, e \in Emails, p \in Passwords : Signup(u, e, p)
    \/ \E u \in Usernames, p \in Passwords : Login(u, p)

SpecAccounts == Init /\ [][NextAccounts]_vars

\* signup served by several worker threads at once
NextConcurrent ==
    \E w \in Workers :
        \/ \E u \in Usernames, e \in Emails : SignupBegin(w, u, e, "pw1")
        \/ SignupCommit(w)

SpecConcurrent == Init /\ [][NextConcurrent]_vars

\* the token gate: one account, the clock, and every token input
NextToken ==
    \/ Signup("alice", EmailOf("alice"), "pw1")
    \/ \E p \in Passwords : Login("alice", p)
    \/ Tick
    \/ \E tok \in TokenInputs : AnalyzeText(tok, Text, Jan01, AngerProbs, "none")
    \/ \E tok \in TokenInputs : AnalyzeAudio(tok, Speech, Jan01, JoyProbs, "none", FALSE)
    \/ \E tok \in TokenInputs : GetHistory(tok)

SpecToken == Init /\ [][NextToken]_vars

\* the histories of two accounts: entries of two dates and two emotions
NextHistory ==
    \/ \E u \in Usernames : Signup(u, EmailOf(u), "pw1")
    \/ \E tok \in SessionTokens, d \in {Jan01, Apr01} :
            AnalyzeText(tok, Text, d, AngerProbs, "none")
    \/ \E tok \in SessionTokens, d \in {Jan01, Apr01} :
            AnalyzeAudio(tok, Speech, d, JoyProbs, "none", FALSE)
    \/ \E tok \in SessionTokens : GetHistory(tok)

SpecHistory == Init /\ [][NextHistory]_vars

\* the history count of two accounts over the dates around a 90-day window
NextWindow ==
    \/ \E u \in Usernames : Signup(u, EmailOf(u), "pw1")
    \/ \E tok \in SessionTokens, d \in WindowDates :
            AnalyzeText(tok, Text, d, AngerProbs, "none")
    \/ \E tok \in SessionTokens, d \in WindowDates :
            AnalyzeAudio(tok, Speech, d, AngerProbs, "none", FALSE)

SpecWindow == Init /\ [][NextWindow]_vars

\* every exit path of the analyze calls: bad dates, blank transcripts, a call
\* that raises, a removal that fails
NextFaults ==
    \/ \E u \in Usernames : Signup(u, EmailOf(u), "pw1")
    \/ \E u \in Usernames : Login(u, "pw1")
    \/ \E tok \in SessionTokens, d \in DateStrings, f \in TextFaults :
            AnalyzeText(tok, Text, d, AngerProbs, f)
    \/ \E tok \in SessionTokens, tr \in Transcripts, d \in DateStrings,
          f \in AudioFaults, rf \in BOOLEAN :
            AnalyzeAudio(tok, tr, d, JoyProbs, f, rf)
    \/ \E tok \in SessionTokens : GetHistory(tok)

SpecFaults == Init /\ [][NextFaults]_vars

NextClassify == \E probs \in ProbVectors : Classify(probs)

SpecClassify == Init /\ [][NextClassify]_vars

NextInsight ==
    \E i \in 1..NumLabels, o \in Orders : Insight(EMOTION_LABELS[i], o)

SpecInsight == Init /\ [][NextInsight]_vars

----------------------------------------------------------------------------
(* Properties *)

AnalyzeOps == {"analyze_text", "analyze_audio"}
SecureOps == AnalyzeOps \cup {"history"}

Count(S) == Cardinality(S)

\* C1: of two concurrent signup calls with the same username at most one
\* succeeds, and the user table never holds two accounts with one username.
C1_OneSignupPerUsername ==
    /\ \A w1, w2 \in Workers :
          (/\ w1 # w2
           /\ workers[w1].pc = "done" /\ workers[w2].pc = "done"
           /\ workers[w1].username = workers[w2].username)
          => ~(workers[w1].status = 200 /\ workers[w2].status = 200)
    /\ \A u \in Usernames : Count({i \in 1..Len(users) : users[i].username = u}) <= 1

\* two signups of one username, with different emails, both passed the SELECT;
\* the commit of the second was rejected
C1_Witness ==
    \E w1, w2 \in Workers :
        /\ w1 # w2
        /\ workers[w1].pc = "done" /\ workers[w2].pc = "done"
        /\ workers[w1].username = workers[w2].username
        /\ workers[w1].email # workers[w2].email
        /\ workers[w1].status = 200
        /\ workers[w2].status = 500 /\ workers[w2].detail = "IntegrityError"

\* C2: signup of a new (username, email) pair succeeds and adds exactly that
\* account; with the username present it fails with the duplicate-username
\* error whatever the email; with only the email present it fails with the
\* duplicate-email error; a failed signup leaves the user table unchanged.
C2_SignupOutcome ==
    last.op = "signup" =>
        LET username == last.text[1]
            email == last.text[2]
            before == last.before.users
            name_taken == \E i \in 1..Len(before) : before[i].username = username
            email_taken == \E i \in 1..Len(before) : before[i].email = email
        IN  IF name_taken
            THEN last.status = 400 /\ last.detail = "Username already taken"
                    /\ users = before
            ELSE IF email_taken
            THEN last.status = 400 /\ last.detail = "Email already registered"
                    /\ users = before
            ELSE /\ last.status = 200
                 /\ Len(users) = Len(before) + 1
                 /\ SubSeq(users, 1, Len(before)) = before
                 /\ users[Len(users)].username = username
                 /\ users[Len(users)].email = email

PairOf(e) == [date |-> e.date, emotion |-> e.emotion_primary]

\* C3: get_history of account A returns exactly the (date, emotion) pairs of
\* the entries A owns, each as often as A has it, in ascending order of date.
C3_HistoryIsOwnEntries ==
    (last.op = "history" /\ last.status = 200) =>
        LET body == last.body
            own == {i \in 1..Len(entries) : entries[i].user_id = last.user}
        IN  /\ Len(body) = Count(own)
            /\ \A k \in 1..Len(body) :
                  Count({j \in 1..Len(body) : body[j] = body[k]})
                    = Count({i \in own : PairOf(entries[i]) = body[k]})
            /\ \A j, k \in 1..Len(body) : j < k => body[j].date <= body[k].date

\* a history of an account that owns an entry, while another account owns an
\* entry whose pair the caller has not
C3_Witness ==
    /\ last.op = "history" /\ last.status = 200
    /\ \E i, j \in 1..Len(entries) :
          /\ entries[i].user_id = last.user
          /\ entries[j].user_id # last.user
          /\ \A k \in 1..Len(entries) :
                entries[k].user_id = last.user => PairOf(entries[k]) # PairOf(entries[j])

\* C4: a secure call acts for an account only when the token's signature
\* verifies, the time of the call is before the token's exp and the subject
\* is the username of an existing account, and then it acts for that account;
\* otherwise it answers 401 and touches no entry.
C4_TokenGate ==
    last.op \in SecureOps =>
        LET tok == last.token
            accounts == last.before.users
            valid == /\ tok.key = SECRET_KEY
                     /\ last.at < tok.exp
                     /\ \E i \in 1..Len(accounts) : accounts[i].username = tok.sub
        IN  IF valid
            THEN /\ last.status # 401
                 /\ \E i \in 1..Len(accounts) :
                       accounts[i].username = tok.sub /\ accounts[i].id = last.user
            ELSE /\ last.status = 401
                 /\ last.body = <<>>
                 /\ entries = last.before.entries

\* C5: analyze_audio whose transcript is blank fails with the empty
\* transcription error, a 4xx, and stores no entry.
C5_EmptyTranscription ==
    (/\ last.op = "analyze_audio"
     /\ last.status # 401
     /\ last.fault \notin {"copy", "transcribe"}
     /\ strip(last.text) = <<>>)
    => /\ last.status \in 400..499
       /\ last.detail = "Could not transcribe audio."
       /\ entries = last.before.entries

\* C6: when analyze_audio returns after it created the temporary file, the
\* file is gone, unless the removal itself failed.
C6_TempFileRemoved ==
    (last.op = "analyze_audio" /\ last.tmp # 0 /\ ~last.remove_failed)
        => last.tmp \notin files

\* the entry the last successful analyze call stored
Inserted == entries[Len(entries)]

AnalyzeDone == last.op \in AnalyzeOps /\ last.status = 200

\* C7, as stated: history_count is the number of the caller's entries dated
\* in the 90 days that end at the entry's date d (d - 90 <= date <= d).
C7_WindowEndsAtEntryDate ==
    AnalyzeDone =>
        last.body.history_count
            = Count({i \in 1..Len(entries) :
                        /\ entries[i].user_id = last.user
                        /\ entries[i].date >= Inserted.date - 90
                        /\ entries[i].date <= Inserted.date})

\* C7, amended: history_count is the number of the caller's entries, counted
\* after the insert, dated d - 90 days or later, with no upper end; it counts
\* the new entry, so it is at least 1, and no entry of another account.
C7_WindowFromEntryDate ==
    AnalyzeDone =>
        /\ Inserted.user_id = last.user
        /\ last.body.history_count
              = Count({i \in 1..Len(entries) :
                          /\ entries[i].user_id = last.user
                          /\ entries[i].date >= Inserted.date - 90})
        /\ last.body.history_count >= 1

\* an analyze call of an account that already has an entry dated exactly 90
\* days before the new one, which is counted
C7_Witness ==
    /\ AnalyzeDone
    /\ last.body.history_count = 2
    /\ \E i \in 1..(Len(entries) - 1) :
          entries[i].user_id = last.user /\ entries[i].date = Inserted.date - 90

\* C8: the emotion stored is the label of the lowest index that holds the
\* maximum of the vector, "neutral" when that index is not in the table, and
\* the score stored is that maximum.
C8_ArgmaxLabel ==
    probe.fn = "classify" =>
        LET p == probe.in
            row == probe.out.row
        IN  \E k \in 1..Len(p) :
                /\ \A j \in 1..Len(p) : p[j] <= p[k]
                /\ \A j \in 1..(k - 1) : p[j] < p[k]
                /\ probe.out.c.max_idx = k - 1
                /\ row.emotion_primary
                      = (IF k <= 28 THEN EMOTION_LABELS[k] ELSE "neutral")
                /\ row.emotion_score = p[k]
                /\ probe.out.response.emotion = row.emotion_primary

\* a vector whose maximum is held twice, the second time outside the table
C8_Witness ==
    /\ probe.fn = "classify"
    /\ \E i, j \in 1..Len(probe.in) :
          /\ i < j /\ j > 28
          /\ probe.in[i] = probe.in[j]
          /\ \A k \in 1..Len(probe.in) : probe.in[k] <= probe.in[i]
          /\ probe.out.row.emotion_primary = EMOTION_LABELS[i]

Groups ==
    << {"anger", "annoyance"}, {"joy", "excitement", "optimism"},
       {"sadness", "grief", "disappointment"}, {"fear", "nervousness"} >>

\* C9: the four groups of the insight rules are the groups of the
\* specification, pairwise disjoint and without "neutral"; a label of a group
\* gets the text of its group, any other label the default; and the result
\* is the same in whatever order the rules run.
C9_InsightTotal ==
    /\ \A g \in 1..4 : InsightRules[g].labels = Groups[g]
    /\ \A g, h \in 1..4 : g # h => InsightRules[g].labels \cap InsightRules[h].labels = {}
    /\ \A g \in 1..4 : "neutral" \notin InsightRules[g].labels
    /\ probe.fn = "insight" =>
          /\ \A g \in 1..4 :
                probe.in.emotion \in Groups[g] => probe.out.code = InsightRules[g].text
          /\ (\A g \in 1..4 : probe.in.emotion \notin Groups[g])
                => probe.out.code = "Take a moment to breathe."
          /\ probe.out.ordered = probe.out.code

\* a label of the third group, with the rules run in the reverse order
C9_Witness ==
    /\ probe.fn = "insight"
    /\ probe.in.emotion = "disappointment"
    /\ probe.in.order = <<4, 3, 2, 1>>
    /\ probe.out.code = InsightRules[3].text

\* C10: an analyze call that returns a result adds exactly one entry, owned
\* by the caller; an analyze call that fails adds none; no other call changes
\* the entries.
C10_OneEntryPerSuccess ==
    /\ (last.op \in AnalyzeOps /\ last.status = 200) =>
          /\ Len(entries) = Len(last.before.entries) + 1
          /\ SubSeq(entries, 1, Len(entries) - 1) = last.before.entries
          /\ entries[Len(entries)].user_id = last.user
    /\ (last.op \in AnalyzeOps /\ last.status # 200) => entries = last.before.entries
    /\ last.op \notin AnalyzeOps => entries = last.before.entries

============================================================================
